---- MODULE Spec2Model ----
(***************************************************************************)
(* Model of the SmartSearch server (src/index.js): the API-key middleware, *)
(* the /filter-songs handler and the /smart-search pipeline (first oracle  *)
(* call, catalog fan-out, thresholding, second oracle call, alignment      *)
(* check and assembly).                                                    *)
(*                                                                         *)
(* Texts are sequences of one-character strings. JavaScript values are     *)
(* tagged records; the tag decides which other field the record has, so    *)
(* two values of different types are records with different domains.       *)
(***************************************************************************)
EXTENDS Integers, Sequences, FiniteSets, TLC

\* ------------------------------------------------------------------ bounds
\* Longest title list the first oracle is taken to return.
MaxTitles == 2
\* Most hits one catalog search is taken to return.
MaxHits == 2
\* Longest relevance array the second oracle is taken to return.
MaxFlags == 2

\* ------------------------------------------------------- JavaScript values
Undefined == [t |-> "undefined"]
Null == [t |-> "null"]
Num(n) == [t |-> "number", n |-> n]
Str(s) == [t |-> "string", s |-> s]
Arr(a) == [t |-> "array", a |-> a]
Obj(o) == [t |-> "object", o |-> o]

\* Array.isArray(v)
IsArray(v) == v.t = "array"

\* v.key, for a value that is not null or undefined: a primitive has no own
\* property of these names, an object has the ones of its map.
Get(v, key) ==
    IF v.t = "object" /\ key \in DOMAIN v.o THEN v.o[key] ELSE Undefined

\* v?.key
OptGet(v, key) ==
    IF v.t \in {"undefined", "null"} THEN Undefined ELSE Get(v, key)

\* v?.[i], with JavaScript's indices from 0
OptIndex(v, i) ==
    IF v.t = "array" /\ i + 1 \in DOMAIN v.a THEN v.a[i + 1] ELSE Undefined

\* !v for the values of the model (0 and the empty string are falsy too).
Falsy(v) ==
    \/ v.t \in {"undefined", "null"}
    \/ v.t = "number" /\ v.n = 0
    \/ v.t = "string" /\ v.s = <<>>

\* a ?? b
Coalesce(a, b) == IF a.t \in {"undefined", "null"} THEN b ELSE a

\* ------------------------------------------------------------------- texts
\* The backtick, U+0060 (a string of the module cannot hold the character).
BT == "BACKTICK"
QT == "\""
NL == "\n"
SP == " "
Whitespace == {SP, NL}

Fence == <<BT, BT, BT>>
JsonWord == <<"j", "s", "o", "n">>

\* s.substr(i, n) = w, without reading past the end of s
HasAt(s, i, w) ==
    /\ i + Len(w) - 1 <= Len(s)
    /\ SubSeq(s, i, i + Len(w) - 1) = w

\* Length of the match of /```(json)?\n/ that starts at position i of s, 0 when
\* there is none. The optional group is greedy, and the two alternatives
\* exclude each other on the character after the backticks.
FenceLineMatch(s, i) ==
    IF ~HasAt(s, i, Fence) THEN 0
    ELSE IF HasAt(s, i + 3, JsonWord \o <<NL>>) THEN 8
    ELSE IF HasAt(s, i + 3, <<NL>>) THEN 4
    ELSE 0

\* Length of the match of /```/ that starts at position i of s.
FenceMatch(s, i) == IF HasAt(s, i, Fence) THEN 3 ELSE 0

\* s.replace(/```(json)?\n/g, ""), scanning from position i: matches are
\* taken leftmost first and do not overlap.
RECURSIVE ReplaceFenceLines(_, _)
ReplaceFenceLines(s, i) ==
    IF i > Len(s) THEN <<>>
    ELSE IF FenceLineMatch(s, i) > 0
         THEN ReplaceFenceLines(s, i + FenceLineMatch(s, i))
         ELSE <<s[i]>> \o ReplaceFenceLines(s, i + 1)

\* s.replace(/```/g, ""), scanning from position i.
RECURSIVE ReplaceFences(_, _)
ReplaceFences(s, i) ==
    IF i > Len(s) THEN <<>>
    ELSE IF FenceMatch(s, i) > 0
         THEN ReplaceFences(s, i + FenceMatch(s, i))
         ELSE <<s[i]>> \o ReplaceFences(s, i + 1)

\* s.trim()
RECURSIVE Trim(_)
Trim(s) ==
    IF s = <<>> THEN s
    ELSE IF Head(s) \in Whitespace THEN Trim(Tail(s))
    ELSE IF s[Len(s)] \in Whitespace THEN Trim(SubSeq(s, 1, Len(s) - 1))
    ELSE s

\* output.replace(/```(json)?\n/g, "").replace(/```/g, "").trim()
StripFences(s) == Trim(ReplaceFences(ReplaceFenceLines(s, 1), 1))

\* -------------------------------------------------------------- JSON.parse
\* The grammar covered: null, non-negative integers, strings without escapes,
\* arrays and objects, with whitespace between tokens. Every other text is a
\* SyntaxError, which is right for every text the model draws.
Digits == <<"0", "1", "2", "3", "4", "5", "6", "7", "8", "9">>
IsDigit(c) == \E d \in 1..10 : Digits[d] = c
DigitValue(c) == (CHOOSE d \in 1..10 : Digits[d] = c) - 1

ParseFail == [ok |-> FALSE]
ParseOk(v, next) == [ok |-> TRUE, val |-> v, pos |-> next]

\* First position >= i of s that holds no whitespace (Len(s) + 1 if none).
RECURSIVE SkipWs(_, _)
SkipWs(s, i) ==
    IF i <= Len(s) /\ s[i] \in Whitespace THEN SkipWs(s, i + 1) ELSE i

\* Position of the quote that closes the string whose first character is at i,
\* 0 when the string is not closed or holds a backslash or a control character.
RECURSIVE StringEnd(_, _)
StringEnd(s, i) ==
    IF i > Len(s) THEN 0
    ELSE IF s[i] = QT THEN i
    ELSE IF s[i] \in {"\\", NL} THEN 0
    ELSE StringEnd(s, i + 1)

\* The digits of a number from position i on, most significant first: the
\* number read so far is acc.
RECURSIVE ParseDigits(_, _, _)
ParseDigits(s, i, acc) ==
    IF i <= Len(s) /\ IsDigit(s[i])
    THEN ParseDigits(s, i + 1, 10 * acc + DigitValue(s[i]))
    ELSE ParseOk(Num(acc), i)

RECURSIVE ParseValue(_, _)
RECURSIVE ParseElements(_, _, _)
RECURSIVE ParseMembers(_, _, _)

\* The value that starts at position i of s (whitespace already skipped).
ParseValue(s, i) ==
    IF i > Len(s) THEN ParseFail
    ELSE IF HasAt(s, i, <<"n", "u", "l", "l">>) THEN ParseOk(Null, i + 4)
    ELSE IF s[i] = "0" THEN ParseOk(Num(0), i + 1)
    ELSE IF IsDigit(s[i]) THEN ParseDigits(s, i, 0)
    ELSE IF s[i] = QT
         THEN IF StringEnd(s, i + 1) = 0 THEN ParseFail
              ELSE ParseOk(Str(SubSeq(s, i + 1, StringEnd(s, i + 1) - 1)),
                           StringEnd(s, i + 1) + 1)
    ELSE IF s[i] = "["
         THEN IF SkipWs(s, i + 1) <= Len(s) /\ s[SkipWs(s, i + 1)] = "]"
              THEN ParseOk(Arr(<<>>), SkipWs(s, i + 1) + 1)
              ELSE ParseElements(s, SkipWs(s, i + 1), <<>>)
    ELSE IF s[i] = "{"
         THEN IF SkipWs(s, i + 1) <= Len(s) /\ s[SkipWs(s, i + 1)] = "}"
              THEN ParseOk(Obj(<<>>), SkipWs(s, i + 1) + 1)
              ELSE ParseMembers(s, SkipWs(s, i + 1), <<>>)
    ELSE ParseFail

\* The elements of an array from position i on, after the elements acc.
ParseElements(s, i, acc) ==
    LET r == ParseValue(s, i)
        j == IF r.ok THEN SkipWs(s, r.pos) ELSE 0
    IN  IF ~r.ok \/ j > Len(s) THEN ParseFail
        ELSE IF s[j] = "]" THEN ParseOk(Arr(Append(acc, r.val)), j + 1)
        ELSE IF s[j] = "," THEN ParseElements(s, SkipWs(s, j + 1), Append(acc, r.val))
        ELSE ParseFail

\* The members of an object from position i on, after the members acc; a
\* repeated key keeps its last value.
ParseMembers(s, i, acc) ==
    LET k == IF i <= Len(s) /\ s[i] = QT THEN StringEnd(s, i + 1) ELSE 0
        c == IF k > 0 THEN SkipWs(s, k + 1) ELSE 0
        r == IF k > 0 /\ c <= Len(s) /\ s[c] = ":"
             THEN ParseValue(s, SkipWs(s, c + 1))
             ELSE ParseFail
        j == IF r.ok THEN SkipWs(s, r.pos) ELSE 0
        o == IF r.ok THEN (SubSeq(s, i + 1, k - 1) :> r.val) @@ acc ELSE acc
    IN  IF ~r.ok \/ j > Len(s) THEN ParseFail
        ELSE IF s[j] = "}" THEN ParseOk(Obj(o), j + 1)
        ELSE IF s[j] = "," THEN ParseMembers(s, SkipWs(s, j + 1), o)
        ELSE ParseFail

\* JSON.parse(s): [ok |-> TRUE, val |-> the value], or [ok |-> FALSE] for the
\* SyntaxError it throws.
JSONParse(s) ==
    LET r == ParseValue(s, SkipWs(s, 1))
    IN  IF r.ok /\ SkipWs(s, r.pos) > Len(s)
        THEN [ok |-> TRUE, val |-> r.val]
        ELSE [ok |-> FALSE]

\* ------------------------------------------------------ catalog-hit mapping
placeholderImage == Str("https://via.placeholder.com/150")

\* The popularity threshold of finalFilteredSongs.
PlayCountThreshold == 90000

\* The object the callback of data.data.results.map builds from one raw record.
MapSong(songData) ==
    Obj([title |-> Coalesce(OptGet(songData, "name"), Str("Unknown Song")),
         id |-> OptGet(songData, "id"),
         artist |-> Coalesce(OptGet(OptIndex(OptGet(OptGet(songData, "artists"),
                                                    "primary"), 0), "name"),
                             Str("Unknown Artist")),
         album |-> Coalesce(OptGet(OptGet(songData, "album"), "name"),
                            Str("Unknown Album")),
         language |-> Coalesce(OptGet(songData, "language"), Str("Unknown Language")),
         year |-> Coalesce(OptGet(songData, "year"), Str("Unknown Year")),
         playCount |-> Coalesce(OptGet(songData, "playCount"), Num(0)),
         image |-> Coalesce(OptGet(OptIndex(OptGet(songData, "image"), 2), "url"),
                            placeholderImage),
         downloadUrls |-> Coalesce(OptGet(songData, "downloadUrl"), Arr(<<>>))])

\* What one search task returns once response.json() has given data: the mapped
\* results, or an empty array for data of another shape.
SearchResult(data) ==
    IF /\ ~Falsy(data)
       /\ ~Falsy(Get(data, "data"))
       /\ IsArray(Get(Get(data, "data"), "results"))
    THEN Arr([i \in DOMAIN Get(Get(data, "data"), "results").a |->
                MapSong(Get(Get(data, "data"), "results").a[i])])
    ELSE Arr(<<>>)

\* ------------------------------------------------- thresholding and assembly
\* FilterSongs.flat(): one level of arrays is spread, any other element (a null
\* slot) is kept.
RECURSIVE Flat(_)
Flat(arr) ==
    IF arr = <<>> THEN <<>>
    ELSE (IF IsArray(Head(arr)) THEN Head(arr).a ELSE <<Head(arr)>>) \o Flat(Tail(arr))

\* a >= n for the play counts of the model, which are numbers.
AtLeast(a, n) == a.t = "number" /\ a.n >= n

\* Faulty variant of KeepSong: > in place of >=.
KeepSongAbove(song) ==
    song # Null /\ AtLeast(Get(song, "playCount"), PlayCountThreshold + 1)

\* The predicate of the filter that gives finalFilteredSongs.
KeepSong(song) ==
    song # Null /\ AtLeast(Get(song, "playCount"), PlayCountThreshold)

\* arr.filter((song) => song !== null && song.playCount >= 90000), from
\* position i of arr on.
RECURSIVE FilterSongsFrom(_, _)
FilterSongsFrom(arr, i) ==
    IF i > Len(arr) THEN <<>>
    ELSE (IF KeepSong(arr[i]) THEN <<arr[i]>> ELSE <<>>) \o FilterSongsFrom(arr, i + 1)

\* Faulty variant of Threshold: one failed search empties the whole candidate list.
ThresholdAllOrNothing(FilterSongsArr) ==
    IF \E k \in DOMAIN FilterSongsArr : FilterSongsArr[k] = Null
    THEN <<>>
    ELSE FilterSongsFrom(Flat(FilterSongsArr), 1)

\* FilterSongs.flat().filter((song) => song !== null && song.playCount >= 90000)
Threshold(FilterSongsArr) == FilterSongsFrom(Flat(FilterSongsArr), 1)

\* The object pushed to FilteredSongsForAI for one song.
Project(song) ==
    Obj([title |-> Get(song, "title"),
         album |-> Get(song, "album"),
         artist |-> Get(song, "artist"),
         language |-> Get(song, "language"),
         year |-> Get(song, "year"),
         playCount |-> Get(song, "playCount")])

\* The projections of songs with every repetition of an earlier one left out.
RECURSIVE ProjectDistinct(_)
ProjectDistinct(songs) ==
    IF songs = <<>> THEN <<>>
    ELSE LET front == ProjectDistinct(SubSeq(songs, 1, Len(songs) - 1))
             last == Project(songs[Len(songs)])
         IN  IF \E k \in DOMAIN front : front[k] = last THEN front
             ELSE Append(front, last)

\* Faulty variant of ProjectAll: a song is given to the oracle once, however
\* often it occurs among the candidates.
ProjectAllDistinct(songs) == ProjectDistinct(songs)

\* FilteredSongsForAI after the forEach over finalFilteredSongs.
ProjectAll(songs) == [i \in DOMAIN songs |-> Project(songs[i])]

\* What the template literal Filterprompt takes from the candidates: the
\* length after "Total Songs:" and the list serialised after "API call Output:"
\* (the rest of the text is the same for every list).
FilterpromptOf(forAI) == [total |-> Len(forAI), songs |-> Arr(forAI)]

\* Faulty variant of FlagIsOne: the flag is tested for truthiness, not for === 1.
FlagIsTruthy(flag) == ~Falsy(flag)

\* mySuggestion[index] === 1
FlagIsOne(flag) == flag = Num(1)

\* songs.filter((song, index) => flags[index] === 1), from position i of songs
\* on (index is i - 1).
RECURSIVE AssembleFrom(_, _, _)
AssembleFrom(songs, flags, i) ==
    IF i > Len(songs) THEN <<>>
    ELSE (IF FlagIsOne(OptIndex(Arr(flags), i - 1)) THEN <<songs[i]>> ELSE <<>>)
         \o AssembleFrom(songs, flags, i + 1)

\* finalFilteredSongs.filter((song, index) => mySuggestion[index] === 1)
Assemble(songs, flags) == AssembleFrom(songs, flags, 1)

\* ---------------------------------------------------------------- the inputs
\* All sequences over S of length at most n.
BoundedSeq(S, n) == UNION {[1..k -> S] : k \in 0..n}

Quote(chars) == <<QT>> \o chars \o <<QT>>

RECURSIVE JoinComma(_)
JoinComma(texts) ==
    IF texts = <<>> THEN <<>>
    ELSE IF Len(texts) = 1 THEN texts[1]
    ELSE texts[1] \o <<",">> \o JoinComma(Tail(texts))

ArrayText(texts) == <<"[">> \o JoinComma(texts) \o <<"]">>
ObjectText(key, valueText) == <<"{">> \o Quote(key) \o <<":">> \o valueText \o <<"}">>

\* The key the first prompt asks for ("songs") and the one the filter prompt
\* asks for ("mySuggestion").
SongsKey == <<"s", "o", "n", "g", "s">>
SuggestionKey == <<"m", "y", "S", "u", "g", "g", "e", "s", "t", "i", "o", "n">>

\* The x-api-key headers a request may carry and the values CLIENT_API_KEY may
\* have: undefined stands for a missing header, an unset variable.
GoodKey == Str(<<"k">>)
ApiKeyHeaders == {Undefined, Str(<<>>), GoodKey, Str(<<"x">>)}
ClientApiKeys == {Undefined, Str(<<>>), GoodKey}
Routes == {"/smart-search", "/filter-songs"}

\* Titles the first oracle may name, and the title lists it may give.
Titles == {<<"a">>}
TitleLists == BoundedSeq(Titles, MaxTitles)
SongsPayload(titles) ==
    ObjectText(SongsKey, ArrayText([i \in DOMAIN titles |-> Quote(titles[i])]))

\* Payloads of the first oracle that are JSON of the shape asked for.
ValidSongsPayloads == {SongsPayload(l) : l \in TitleLists}

\* Payloads of another shape: null, an object without the key, a key that holds
\* no array, an array that holds a number, and text that is no JSON.
NotJsonText == <<"S", "o", "r", "r", "y">>
NullText == <<"n", "u", "l", "l">>
MalformedSongsPayloads ==
    { NullText,
      <<"{", "}">>,
      ObjectText(SongsKey, Quote(<<"a">>)),
      ObjectText(SongsKey, ArrayText(<<<<"1">>>>)),
      ObjectText(SongsKey, ArrayText(<<Quote(<<"a">>), NullText>>)),
      NotJsonText }

\* The ways an oracle wraps its payload: bare, or in a code fence that opens
\* with three backticks or three backticks and "json", followed by a newline or
\* not.
WrapKinds == {"bare", "fence-nl", "fence-json-nl", "fence", "fence-json"}
Wrap(kind, payload) ==
    CASE kind = "bare" -> payload
      [] kind = "fence-nl" -> Fence \o <<NL>> \o payload \o <<NL>> \o Fence
      [] kind = "fence-json-nl" ->
            Fence \o JsonWord \o <<NL>> \o payload \o <<NL>> \o Fence \o <<NL>>
      [] kind = "fence" -> Fence \o payload \o Fence
      [] kind = "fence-json" -> Fence \o JsonWord \o payload \o Fence

\* Texts response.response.text() may give for the first prompt.
Oracle1Texts ==
    {Wrap(k, p) : k \in WrapKinds, p \in ValidSongsPayloads \cup MalformedSongsPayloads}

\* Arrays of flags the second oracle may give.
FlagTexts == {<<"0">>, <<"1">>}
FlagLists == BoundedSeq(FlagTexts, MaxFlags)
SuggestionPayload(flags) == ObjectText(SuggestionKey, ArrayText(flags))
ValidSuggestionPayloads == {SuggestionPayload(l) : l \in FlagLists}

\* Payloads of another shape: null, an object without the key, a key that holds
\* no array, arrays that hold the string "1" or the number 2 (alone, and after
\* a flag), and text that is no JSON.
MalformedSuggestionPayloads ==
    { NullText,
      <<"{", "}">>,
      ObjectText(SuggestionKey, <<"1">>),
      SuggestionPayload(<<Quote(<<"1">>)>>),
      SuggestionPayload(<<<<"2">>>>),
      SuggestionPayload(<<<<"1">>, Quote(<<"1">>)>>),
      NotJsonText }

\* Texts filterResponse.response.text() may give: bare, or fenced the way the
\* cleaning is written for.
FilterWrapKinds == {"bare", "fence-json-nl"}
Oracle2Texts ==
    {Wrap(k, p) : k \in FilterWrapKinds,
                  p \in ValidSuggestionPayloads \cup MalformedSuggestionPayloads}

\* Raw catalog records: a complete one above the threshold, one at the
\* threshold with some fields null or missing, and one with no field at all
\* (so with no play count).
FullRecord ==
    Obj([name |-> Str("Shape of You"),
         id |-> Str("s1"),
         artists |-> Obj([primary |-> Arr(<<Obj([name |-> Str("Ed Sheeran")])>>)]),
         album |-> Obj([name |-> Str("Divide")]),
         language |-> Str("english"),
         year |-> Str("2017"),
         playCount |-> Num(500000),
         image |-> Arr(<<Obj([url |-> Str("i50")]), Obj([url |-> Str("i150")]),
                         Obj([url |-> Str("i500")])>>),
         downloadUrl |-> Arr(<<Obj([url |-> Str("d320")])>>)])
PartialRecord ==
    Obj([name |-> Str("Shape of You (Cover)"),
         id |-> Str("s2"),
         artists |-> Obj([primary |-> Arr(<<>>)]),
         album |-> Null,
         playCount |-> Num(90000),
         image |-> Arr(<<Obj([url |-> Str("i50")])>>)])
EmptyRecord == Obj(<<>>)
RawRecords == {FullRecord, PartialRecord, EmptyRecord}

\* The result lists of one search: at most MaxHits records, each at most once,
\* in any order.
HitLists ==
    {l \in BoundedSeq(RawRecords, MaxHits) :
        \A i, j \in DOMAIN l : l[i] = l[j] => i = j}

\* What response.json() may give: the documented shape, or another shape.
CatalogData ==
    {Obj([data |-> Obj([results |-> Arr(l)])]) : l \in HitLists}
    \cup {Null, Obj(<<>>), Obj([data |-> Obj([results |-> Null])])}

\* output.replace(...).replace(...).trim() and JSON.parse of the result, for
\* every text an oracle may give (a table, so that each text is cleaned and
\* parsed once).
OracleTexts == Oracle1Texts \cup Oracle2Texts
Cleaned == [text \in OracleTexts |-> StripFences(text)]
\* Faulty variant of Parsed: text that is no JSON is taken as an object with an empty
\* array at both keys.
ParsedLenient ==
    [text \in OracleTexts |->
        IF JSONParse(StripFences(text)).ok
        THEN JSONParse(StripFences(text))
        ELSE [ok |-> TRUE,
              val |-> Obj((SongsKey :> Arr(<<>>)) @@ (SuggestionKey :> Arr(<<>>)))]]

Parsed == [text \in OracleTexts |-> JSONParse(StripFences(text))]

\* ------------------------------------------------------------------ the state
VARIABLES
    route,              \* the path of the request
    apiKey,             \* req.headers["x-api-key"]
    clientApiKey,       \* process.env.CLIENT_API_KEY
    pc,                 \* where the request is
    output,             \* let output: the first oracle's text, then cleaned
    suggestions,        \* let suggestions (undefined until parsed)
    task,               \* task[i]: where the search of title i is
    slots,              \* the result array Promise.all fills, one slot a title
    FilterSongs,        \* const FilterSongs
    finalFilteredSongs, \* const finalFilteredSongs
    FilteredSongsForAI, \* const FilteredSongsForAI
    Filterprompt,       \* const Filterprompt (undefined until built)
    filterOutput,       \* let filterOutput: the second oracle's text, then cleaned
    filterSuggestions,  \* let filterSuggestions
    oracleCalls,        \* the generateContent calls made, in order
    searches,           \* the songs a catalog search was issued for, in order
    sent                \* the responses written to res, in order

vars == <<route, apiKey, clientApiKey, pc, output, suggestions, task, slots,
          FilterSongs, finalFilteredSongs, FilteredSongsForAI, Filterprompt,
          filterOutput, filterSuggestions, oracleCalls, searches, sent>>

reqVars == <<route, apiKey, clientApiKey>>
stage1Vars == <<output, suggestions>>
fanoutVars == <<task, slots, searches>>
stage2Vars == <<FilterSongs, finalFilteredSongs, FilteredSongsForAI, Filterprompt,
                filterOutput, filterSuggestions>>

Init ==
    /\ route \in Routes
    /\ apiKey \in ApiKeyHeaders
    /\ clientApiKey \in ClientApiKeys
    /\ pc = "checkApiKey"
    /\ output = <<>>
    /\ suggestions = Undefined
    /\ task = <<>>
    /\ slots = <<>>
    /\ FilterSongs = <<>>
    /\ finalFilteredSongs = <<>>
    /\ FilteredSongsForAI = <<>>
    /\ Filterprompt = Undefined
    /\ filterOutput = <<>>
    /\ filterSuggestions = Undefined
    /\ oracleCalls = <<>>
    /\ searches = <<>>
    /\ sent = <<>>

\* res.status(status).json({ error: message })
ErrorResponse(status, message) ==
    [status |-> status, body |-> Obj([error |-> Str(message)])]

\* res.json({ suggestedSongs: value })
SongsResponse(value) == [status |-> 200, body |-> Obj([suggestedSongs |-> value])]

\* Faulty variant of Respond: the response is written but the handler does not return.
RespondNoReturn(r) == sent' = Append(sent, r) /\ pc' = pc

\* The handler writes response r and returns.
Respond(r) == sent' = Append(sent, r) /\ pc' = "done"

\* Faulty variant of ApiKeyOk: the header is compared without being tested first.
ApiKeyEquals(key, secret) == key = secret

\* apiKey && apiKey === process.env.CLIENT_API_KEY
ApiKeyOk(key, secret) == ~Falsy(key) /\ key = secret

\* checkApiKey: next() for the right key, a 403 otherwise.
CheckApiKey ==
    /\ pc = "checkApiKey"
    /\ IF ApiKeyOk(apiKey, clientApiKey)
       THEN pc' = "handler" /\ sent' = sent
       ELSE Respond(ErrorResponse(403, "Forbidden: Invalid API key."))
    /\ UNCHANGED <<reqVars, stage1Vars, fanoutVars, stage2Vars, oracleCalls>>

\* ------------------------------------------------------------- /filter-songs
\* The handler up to its await of model.generateContent(prompt).
FilterSongsCall ==
    /\ pc = "handler" /\ route = "/filter-songs"
    /\ oracleCalls' = Append(oracleCalls, "recommend")
    /\ pc' = "awaitRecommend"
    /\ UNCHANGED <<reqVars, stage1Vars, fanoutVars, stage2Vars, sent>>

\* The oracle call rejects (or text() throws): the catch answers.
FilterSongsThrows ==
    /\ pc = "awaitRecommend"
    /\ Respond(ErrorResponse(500, "Error generating song suggestions"))
    /\ UNCHANGED <<reqVars, stage1Vars, fanoutVars, stage2Vars, oracleCalls>>

\* The oracle answers with text: it is cleaned and parsed, and the parsed value
\* is the answer; a SyntaxError goes to the catch.
FilterSongsReturns(text) ==
    /\ pc = "awaitRecommend"
    /\ output' = Cleaned[text]
    /\ LET parsed == Parsed[text]
       IN  IF parsed.ok
           THEN /\ suggestions' = parsed.val
                /\ Respond(SongsResponse(parsed.val))
           ELSE /\ suggestions' = suggestions
                /\ Respond(ErrorResponse(500, "Error generating song suggestions"))
    /\ UNCHANGED <<reqVars, fanoutVars, stage2Vars, oracleCalls>>

\* ------------------------------------------------------------- /smart-search
\* The handler up to its await of model.generateContent(prompt).
SuggestCall ==
    /\ pc = "handler" /\ route = "/smart-search"
    /\ oracleCalls' = Append(oracleCalls, "suggest")
    /\ pc' = "awaitSuggest"
    /\ UNCHANGED <<reqVars, stage1Vars, fanoutVars, stage2Vars, sent>>

\* Faulty variant of SuggestThrows: when the first oracle call fails the handler
\* falls back to a title of its own and goes on to the searches.
SuggestThrowsFallback ==
    /\ pc = "awaitSuggest"
    /\ searches' = Append(searches, Str(<<"a">>))
    /\ task' = <<"fetch">>
    /\ slots' = <<Undefined>>
    /\ pc' = "fanout"
    /\ UNCHANGED <<reqVars, stage1Vars, stage2Vars, oracleCalls, sent>>

\* The first oracle call rejects (or text() throws): the outer catch answers.
SuggestThrows ==
    /\ pc = "awaitSuggest"
    /\ Respond(ErrorResponse(500, "Error generating song suggestions"))
    /\ UNCHANGED <<reqVars, stage1Vars, fanoutVars, stage2Vars, oracleCalls>>

\* The negation of !suggestions || !Array.isArray(suggestions.songs)
SongsShapeOk(v) == ~Falsy(v) /\ IsArray(Get(v, SongsKey))

\* The titles of songs with every repetition of an earlier title left out.
RECURSIVE WithoutRepeats(_)
WithoutRepeats(songs) ==
    IF songs = <<>> THEN <<>>
    ELSE LET front == WithoutRepeats(SubSeq(songs, 1, Len(songs) - 1))
             last == songs[Len(songs)]
         IN  IF \E k \in DOMAIN front : front[k] = last THEN front
             ELSE Append(front, last)

\* Faulty variant of SearchQueries: a title that occurs twice is searched once.
SearchQueriesOnce(songs) == WithoutRepeats(songs)

\* suggestions.songs.map(async (song) => fetch(...query=song...)): the queries
\* of the fetches the callbacks issue, one for each element of songs.
SearchQueries(songs) == [i \in DOMAIN songs |-> songs[i]]

\* The first oracle answers with text: it is cleaned, parsed and checked; a
\* value that passes starts one search task for every element of
\* suggestions.songs, and each task runs up to its await of fetch.
SuggestReturns(text) ==
    /\ pc = "awaitSuggest"
    /\ output' = Cleaned[text]
    /\ LET parsed == Parsed[text]
       IN  IF ~parsed.ok
           THEN /\ Respond(ErrorResponse(500, "Failed to parse response from AI"))
                /\ UNCHANGED <<suggestions, fanoutVars>>
           ELSE IF ~SongsShapeOk(parsed.val)
           THEN /\ suggestions' = parsed.val
                /\ Respond(ErrorResponse(500, "Unexpected JSON format"))
                /\ UNCHANGED fanoutVars
           ELSE /\ suggestions' = parsed.val
                /\ searches' = searches \o SearchQueries(Get(parsed.val, SongsKey).a)
                /\ task' = [i \in DOMAIN Get(parsed.val, SongsKey).a |-> "fetch"]
                /\ slots' = [i \in DOMAIN Get(parsed.val, SongsKey).a |-> Undefined]
                /\ pc' = "fanout"
                /\ sent' = sent
    /\ UNCHANGED <<reqVars, stage2Vars, oracleCalls>>

\* The first position of results that holds no result yet (0 when none).
FirstUnset(results) ==
    IF \E k \in DOMAIN results : results[k] = Undefined
    THEN CHOOSE k \in DOMAIN results :
            /\ results[k] = Undefined
            /\ \A j \in 1..(k - 1) : results[j] # Undefined
    ELSE 0

\* Faulty variant of Settle: the results are collected in the order in which
\* the tasks return (as a push from each callback would).
SettleInCompletionOrder(results, i, value) ==
    [results EXCEPT ![FirstUnset(results)] = value]

\* Promise.all keeps the value task i returns at position i of its result, the
\* position of the task's title in suggestions.songs.
Settle(results, i, value) == [results EXCEPT ![i] = value]

\* Faulty variant of FetchSettles: a fetch that rejects or answers with a status
\* that is not a success leaves its task pending for ever.
FetchSettlesHangs(i) ==
    /\ pc = "fanout" /\ i \in DOMAIN task /\ task[i] = "fetch"
    /\ \E outcome \in {"rejected", "not ok", "ok"} :
          IF outcome = "ok"
          THEN task' = [task EXCEPT ![i] = "json"]
          ELSE task' = [task EXCEPT ![i] = "pending"]
    /\ UNCHANGED <<reqVars, stage1Vars, stage2Vars, slots, searches, oracleCalls, sent, pc>>

\* The fetch of task i settles: it rejects or the status is not a success, and
\* the task returns null; or the status is a success and the task awaits
\* response.json().
FetchSettles(i) ==
    /\ pc = "fanout" /\ i \in DOMAIN task /\ task[i] = "fetch"
    /\ \E outcome \in {"rejected", "not ok", "ok"} :
          IF outcome = "ok"
          THEN task' = [task EXCEPT ![i] = "json"] /\ slots' = slots
          ELSE task' = [task EXCEPT ![i] = "done"] /\ slots' = Settle(slots, i, Null)
    /\ UNCHANGED <<reqVars, stage1Vars, stage2Vars, searches, oracleCalls, sent, pc>>

\* response.json() of task i rejects, and the task returns null.
JsonRejects(i) ==
    /\ pc = "fanout" /\ i \in DOMAIN task /\ task[i] = "json"
    /\ task' = [task EXCEPT ![i] = "done"]
    /\ slots' = Settle(slots, i, Null)
    /\ UNCHANGED <<reqVars, stage1Vars, stage2Vars, searches, oracleCalls, sent, pc>>

\* response.json() of task i gives data, and the task returns its result.
JsonSettles(i) ==
    /\ pc = "fanout" /\ i \in DOMAIN task /\ task[i] = "json"
    /\ \E data \in CatalogData :
          slots' = Settle(slots, i, SearchResult(data))
    /\ task' = [task EXCEPT ![i] = "done"]
    /\ UNCHANGED <<reqVars, stage1Vars, stage2Vars, searches, oracleCalls, sent, pc>>

\* Faulty variant of AllTasksReturned: the join resolves with the first task
\* that returns (as Promise.race or Promise.any would).
AnyTaskReturned(t) == t = <<>> \/ \E i \in DOMAIN t : t[i] = "done"

\* await Promise.all(...): the promise resolves when every task has returned.
AllTasksReturned(t) == \A i \in DOMAIN t : t[i] = "done"

\* results with every null replaced by an empty array.
WithoutNulls(results) ==
    [i \in DOMAIN results |-> IF results[i] = Null THEN Arr(<<>>) ELSE results[i]]

\* Faulty variant of FilterCall: before flattening, the nulls of the results
\* array are overwritten in place with empty arrays.
FilterCallInPlace ==
    /\ pc = "fanout"
    /\ AllTasksReturned(task)
    /\ slots' = WithoutNulls(slots)
    /\ FilterSongs' = WithoutNulls(slots)
    /\ finalFilteredSongs' = Threshold(WithoutNulls(slots))
    /\ FilteredSongsForAI' = ProjectAll(finalFilteredSongs')
    /\ Filterprompt' = FilterpromptOf(FilteredSongsForAI')
    /\ oracleCalls' = Append(oracleCalls, "filter")
    /\ pc' = "awaitFilter"
    /\ UNCHANGED <<reqVars, stage1Vars, task, searches, filterOutput, filterSuggestions, sent>>

\* Faulty variant of FilterCall: with no candidate left after the threshold the
\* handler answers an empty suggestedSongs at once, the second oracle not called.
FilterCallShortCircuit ==
    /\ pc = "fanout"
    /\ AllTasksReturned(task)
    /\ FilterSongs' = slots
    /\ finalFilteredSongs' = Threshold(slots)
    /\ FilteredSongsForAI' = ProjectAll(finalFilteredSongs')
    /\ IF finalFilteredSongs' = <<>>
       THEN /\ Respond(SongsResponse(Arr(<<>>)))
            /\ UNCHANGED <<Filterprompt, oracleCalls>>
       ELSE /\ Filterprompt' = FilterpromptOf(FilteredSongsForAI')
            /\ oracleCalls' = Append(oracleCalls, "filter")
            /\ pc' = "awaitFilter"
            /\ sent' = sent
    /\ UNCHANGED <<reqVars, stage1Vars, fanoutVars, filterOutput, filterSuggestions>>

\* Promise.all resolves once every task has returned; the handler builds
\* finalFilteredSongs and FilteredSongsForAI and runs up to its await of
\* filterModel.generateContent(Filterprompt).
FilterCall ==
    /\ pc = "fanout"
    /\ AllTasksReturned(task)
    /\ FilterSongs' = slots
    /\ finalFilteredSongs' = Threshold(slots)
    /\ FilteredSongsForAI' = ProjectAll(finalFilteredSongs')
    /\ Filterprompt' = FilterpromptOf(FilteredSongsForAI')
    /\ oracleCalls' = Append(oracleCalls, "filter")
    /\ pc' = "awaitFilter"
    /\ UNCHANGED <<reqVars, stage1Vars, fanoutVars, filterOutput, filterSuggestions, sent>>

\* The second oracle call rejects (or text() throws): the outer catch answers.
FilterThrows ==
    /\ pc = "awaitFilter"
    /\ Respond(ErrorResponse(500, "Error generating song suggestions"))
    /\ UNCHANGED <<reqVars, stage1Vars, fanoutVars, stage2Vars, oracleCalls>>

\* The negation of
\* !filterSuggestions || !Array.isArray(filterSuggestions.mySuggestion)
SuggestionShapeOk(v) == ~Falsy(v) /\ IsArray(Get(v, SuggestionKey))

\* const mySuggestion = filterSuggestions.mySuggestion, as a sequence
MySuggestion(v) == Get(v, SuggestionKey).a

\* Faulty variant of LengthsMatch: only an array that is too long is refused, so a
\* shorter one is applied to the first candidates.
LengthsMatchOrShorter(flags, songs) == Len(flags) <= Len(songs)

\* The negation of mySuggestion.length !== finalFilteredSongs.length
LengthsMatch(flags, songs) == Len(flags) = Len(songs)

\* The second oracle answers with text: it is cleaned, parsed and checked, and
\* the flags are applied.
FilterReturns(text) ==
    /\ pc = "awaitFilter"
    /\ filterOutput' = Cleaned[text]
    /\ LET parsed == Parsed[text]
       IN  IF ~parsed.ok
           THEN /\ Respond(ErrorResponse(500, "Failed to parse filter response from AI"))
                /\ filterSuggestions' = filterSuggestions
           ELSE /\ filterSuggestions' = parsed.val
                /\ IF ~SuggestionShapeOk(parsed.val)
                   THEN Respond(ErrorResponse(500, "Unexpected filter JSON format"))
                   ELSE IF ~LengthsMatch(MySuggestion(parsed.val), finalFilteredSongs)
                   THEN Respond(ErrorResponse(500, "Suggestion array length mismatch"))
                   ELSE Respond(SongsResponse(
                            Arr(Assemble(finalFilteredSongs, MySuggestion(parsed.val)))))
    /\ UNCHANGED <<reqVars, stage1Vars, fanoutVars, FilterSongs, finalFilteredSongs,
                   FilteredSongsForAI, Filterprompt, oracleCalls>>

Next ==
    \/ CheckApiKey
    \/ FilterSongsCall
    \/ FilterSongsThrows
    \/ \E text \in Oracle1Texts : FilterSongsReturns(text)
    \/ SuggestCall
    \/ SuggestThrows
    \/ \E text \in Oracle1Texts : SuggestReturns(text)
    \/ \E i \in 1..(MaxTitles + 1) : FetchSettles(i)
    \/ \E i \in 1..(MaxTitles + 1) : JsonRejects(i)
    \/ \E i \in 1..(MaxTitles + 1) : JsonSettles(i)
    \/ FilterCall
    \/ FilterThrows
    \/ \E text \in Oracle2Texts : FilterReturns(text)

Spec == Init /\ [][Next]_vars

\* The handler under the assumption that every awaited operation settles: the
\* oracle calls, the fetches and response.json() return or fail, and the
\* continuation that waits for them is run.
FairSpec == Init /\ [][Next]_vars /\ WF_vars(Next)

\* ================================================================ properties
Smart == route = "/smart-search"
Done == pc = "done"

\* The join has happened: finalFilteredSongs and FilteredSongsForAI are built.
Joined == Smart /\ Len(oracleCalls) = 2

\* The request has been answered with a 200 that holds a suggestedSongs array.
Answered200 ==
    /\ Done /\ Len(sent) = 1 /\ sent[1].status = 200
    /\ DOMAIN sent[1].body.o = {"suggestedSongs"}

\* The request has been answered with status and { error: message } alone.
AnsweredError(status, message) ==
    Done /\ sent = <<[status |-> status, body |-> Obj([error |-> Str(message)])]>>

\* v is an object with an array at key.
HasArrayAt(v, key) ==
    v.t = "object" /\ key \in DOMAIN v.o /\ v.o[key].t = "array"

\* The second oracle's answer was parsed and holds an array at "mySuggestion".
HasFlags == Joined /\ HasArrayAt(filterSuggestions, SuggestionKey)
Flags == filterSuggestions.o[SuggestionKey].a

\* ------------------------------------------------------------------------ C1
\* C1: when the parsed relevance array and the thresholded candidate list
\* differ in length, shorter or longer, the request is answered with the 500
\* "Suggestion array length mismatch" error alone, with no suggestedSongs.
C1_LengthMismatchFails ==
    (Done /\ HasFlags /\ Len(Flags) # Len(finalFilteredSongs))
        => AnsweredError(500, "Suggestion array length mismatch")

\* Two flags came back for three candidates.
C1_Witness ==
    /\ Done /\ HasFlags
    /\ Len(Flags) = 2 /\ Len(finalFilteredSongs) = 3
    /\ AnsweredError(500, "Suggestion array length mismatch")

\* ------------------------------------------------------------------------ C2
\* The indices of the candidates whose flag is the number 1.
KeptIndices == {i \in DOMAIN finalFilteredSongs : Flags[i] = Num(1)}

\* The k-th smallest kept index.
KthKept(k) == CHOOSE i \in KeptIndices : Cardinality({j \in KeptIndices : j <= i}) = k

\* C2: the suggestedSongs of a 200 answer are exactly the candidates whose
\* flag is 1, in their original order: as many as there are such flags, at
\* most as many as candidates, the k-th of them the candidate at the k-th
\* index whose flag is 1.
C2_AssembleKeepsFlagged ==
    (Smart /\ Answered200) =>
        LET out == sent[1].body.o.suggestedSongs.a
        IN  /\ HasFlags
            /\ Len(Flags) = Len(finalFilteredSongs)
            /\ Len(out) = Cardinality(KeptIndices)
            /\ Len(out) <= Len(finalFilteredSongs)
            /\ \A k \in DOMAIN out : out[k] = finalFilteredSongs[KthKept(k)]

\* Two different candidates, the first dropped by a 0 and the second kept.
C2_Witness ==
    /\ Smart /\ Answered200
    /\ Len(finalFilteredSongs) = 2
    /\ finalFilteredSongs[1] # finalFilteredSongs[2]
    /\ Flags = <<Num(0), Num(1)>>
    /\ sent[1].body.o.suggestedSongs.a = <<finalFilteredSongs[2]>>

\* ------------------------------------------------------------------------ C3
\* The play count of a candidate or of its projection is below the threshold.
Below(song) == ~(song.o.playCount.t = "number" /\ song.o.playCount.n >= 90000)

\* C3: no candidate given to the second oracle and no song of the final answer
\* has a play count below 90000 (a record without play count has 0), and every
\* hit of a successful search with a play count of at least 90000 is a
\* candidate.
C3_ThresholdHolds ==
    Smart =>
        /\ \A i \in DOMAIN FilteredSongsForAI : ~Below(FilteredSongsForAI[i])
        /\ \A i \in DOMAIN finalFilteredSongs : ~Below(finalFilteredSongs[i])
        /\ Answered200 =>
              \A i \in DOMAIN sent[1].body.o.suggestedSongs.a :
                 ~Below(sent[1].body.o.suggestedSongs.a[i])
        /\ Joined =>
              \A i \in DOMAIN FilterSongs :
                 FilterSongs[i].t = "array" =>
                    \A k \in DOMAIN FilterSongs[i].a :
                       ~Below(FilterSongs[i].a[k]) =>
                          \E j \in DOMAIN finalFilteredSongs :
                             finalFilteredSongs[j] = FilterSongs[i].a[k]

\* One search gave a record without play count and the record at the
\* threshold; the latter alone is a candidate and is in the answer.
C3_Witness ==
    /\ Smart /\ Answered200
    /\ \E i \in DOMAIN FilterSongs :
          /\ FilterSongs[i].t = "array"
          /\ Len(FilterSongs[i].a) = 2
          /\ FilterSongs[i].a[1].o.playCount = Num(0)
          /\ FilterSongs[i].a[2].o.playCount = Num(90000)
          /\ finalFilteredSongs = <<FilterSongs[i].a[2]>>
    /\ sent[1].body.o.suggestedSongs.a = finalFilteredSongs

\* ------------------------------------------------------------------------ C4
\* The hits of one slot that pass the threshold: none for a failed search.
PassingHits(slot) ==
    IF slot.t = "array" THEN SelectSeq(slot.a, LAMBDA song : ~Below(song)) ELSE <<>>

\* The passing hits of the slots from position i on, in slot order.
RECURSIVE PassingFrom(_, _)
PassingFrom(arr, i) ==
    IF i > Len(arr) THEN <<>> ELSE PassingHits(arr[i]) \o PassingFrom(arr, i + 1)

\* C4: a failed search (a null slot) gives no candidate and does not abort the
\* request: nothing is answered while searches are in flight, the candidate
\* list is the passing hits of the other searches, unchanged and in order, and
\* no null reaches the candidate list, the list for the prompt or the answer.
C4_FailedSearchIsAbsorbed ==
    Smart =>
        /\ pc = "fanout" => sent = <<>>
        /\ Joined =>
              /\ finalFilteredSongs = PassingFrom(FilterSongs, 1)
              /\ \A i \in DOMAIN finalFilteredSongs : finalFilteredSongs[i] # Null
              /\ \A i \in DOMAIN FilteredSongsForAI : FilteredSongsForAI[i] # Null
        /\ Answered200 =>
              \A i \in DOMAIN sent[1].body.o.suggestedSongs.a :
                 sent[1].body.o.suggestedSongs.a[i] # Null

\* The first search failed, the second gave one passing hit, and the request
\* ended in a 200 that holds this hit.
C4_Witness ==
    /\ Smart /\ Answered200
    /\ Len(FilterSongs) = 2
    /\ FilterSongs[1] = Null
    /\ FilterSongs[2].t = "array" /\ Len(FilterSongs[2].a) = 1
    /\ sent[1].body.o.suggestedSongs.a = FilterSongs[2].a

\* ------------------------------------------------------------------------ C5
\* JSON.parse of every cleaned text a variable may hold (the empty text is what
\* output and filterOutput hold when the oracle call threw).
CleanTexts == {StripFences(text) : text \in OracleTexts} \cup {<<>>}
ParsedClean == [text \in CleanTexts |-> JSONParse(text)]

\* The oracle stage whose cleaned text is text is broken: the call threw or the
\* text is no JSON, or the parsed value has no array at key.
StageBroken(text, key) ==
    ~ParsedClean[text].ok \/ ~HasArrayAt(ParsedClean[text].val, key)

\* A 500 that holds an error message and nothing else.
AnsweredError500 ==
    /\ Done /\ Len(sent) = 1 /\ sent[1].status = 500
    /\ DOMAIN sent[1].body.o = {"error"}

\* C5: when an oracle stage is broken (the call throws, the cleaned text is no
\* JSON, or the parsed value has no array at "songs" / "mySuggestion"), the
\* request ends with one 500 that holds an error object and no suggestedSongs.
C5_BrokenStageFails ==
    (Smart /\ Done /\ Len(oracleCalls) >= 1
        /\ (\/ StageBroken(output, SongsKey)
            \/ Len(oracleCalls) = 2 /\ StageBroken(filterOutput, SuggestionKey)))
        => AnsweredError500

\* The first stage passed and the second oracle's cleaned text is no JSON.
C5_Witness ==
    /\ Smart /\ Done /\ Len(oracleCalls) = 2
    /\ ~StageBroken(output, SongsKey)
    /\ filterOutput = NotJsonText
    /\ AnsweredError(500, "Failed to parse filter response from AI")

\* ------------------------------------------------------------------------ C6
\* C6: a /smart-search request that passed the API-key check has at most one
\* response at any time and exactly one once the handler has returned, which is
\* either a 200 with a suggestedSongs array alone or an error object alone.
C6_ExactlyOneResponse ==
    (Smart /\ pc # "checkApiKey" /\ ~Falsy(apiKey) /\ apiKey = clientApiKey) =>
        /\ Len(sent) <= 1
        /\ Done <=> Len(sent) = 1
        /\ Done =>
              \/ /\ sent[1].status = 200
                 /\ DOMAIN sent[1].body.o = {"suggestedSongs"}
                 /\ sent[1].body.o.suggestedSongs.t = "array"
              \/ /\ sent[1].status = 500
                 /\ DOMAIN sent[1].body.o = {"error"}

\* A request that went through both oracle calls and was answered 200 with an
\* empty list.
C6_Witness ==
    /\ Smart /\ Answered200 /\ Len(oracleCalls) = 2
    /\ sent[1].body.o.suggestedSongs = Arr(<<>>)

\* ------------------------------------------------------------------------ C7
\* C7: a request to /smart-search or /filter-songs whose x-api-key is missing
\* or differs from CLIENT_API_KEY (also an unset CLIENT_API_KEY) never reaches
\* its handler: no oracle call and no catalog search is made, and its only
\* answer is the 403 "Forbidden: Invalid API key.".
C7_InvalidKeyIsRejectedFirst ==
    (apiKey = Undefined \/ apiKey # clientApiKey) =>
        /\ pc \in {"checkApiKey", "done"}
        /\ oracleCalls = <<>> /\ searches = <<>>
        /\ Done <=> sent = <<[status |-> 403,
                              body |-> Obj([error |-> Str("Forbidden: Invalid API key.")])]>>
        /\ ~Done => sent = <<>>

\* The header is missing, CLIENT_API_KEY is unset, and the 403 is sent.
C7_Witness ==
    /\ route = "/smart-search"
    /\ apiKey = Undefined /\ clientApiKey = Undefined
    /\ AnsweredError(403, "Forbidden: Invalid API key.")

\* ------------------------------------------------------------------------ C8
\* v is an object with an array of strings at "songs".
HasStringArray(v) ==
    /\ HasArrayAt(v, SongsKey)
    /\ \A i \in DOMAIN v.o[SongsKey].a : v.o[SongsKey].a[i].t = "string"

\* C8: when the first oracle's parsed JSON has no array of strings at "songs"
\* (the key is missing, holds no array, or holds an array with an element that
\* is no string), no catalog search is issued and the request is answered 500.
C8_NonStringTitlesRejected ==
    (Smart /\ suggestions # Undefined /\ ~HasStringArray(suggestions)) =>
        /\ searches = <<>>
        /\ AnsweredError500

\* ------------------------------------------------------------------------ C9
\* v is an object with an array of integers at "mySuggestion".
HasIntegerArray(v) ==
    /\ HasArrayAt(v, SuggestionKey)
    /\ \A i \in DOMAIN v.o[SuggestionKey].a : v.o[SuggestionKey].a[i].t = "number"

\* C9: when the second oracle's parsed JSON has no array of integers at
\* "mySuggestion", also when the array has the right length and holds an
\* element that is no integer, the request is rejected: it is not answered 200.
C9_NonIntegerFlagsRejected ==
    (Smart /\ Done /\ filterSuggestions # Undefined
        /\ ~HasIntegerArray(filterSuggestions)) => AnsweredError500

\* ----------------------------------------------------------------------- C10
\* The cleaning step on its own: output starts as any payload of the two
\* prompts, or one with three backticks inside a title, in any of the wraps;
\* the cleaning is applied once, as the handlers do, and then once more.
FencedTitlePayload == SongsPayload(<<<<"c">> \o Fence>>)
CleanPayloads ==
    ValidSongsPayloads \cup MalformedSongsPayloads \cup ValidSuggestionPayloads
        \cup MalformedSuggestionPayloads \cup {FencedTitlePayload}
CleanInputs == {Wrap(k, p) : k \in WrapKinds, p \in CleanPayloads}

CleanInit ==
    /\ route = "/smart-search"
    /\ apiKey = GoodKey
    /\ clientApiKey = GoodKey
    /\ pc = "raw"
    /\ output \in CleanInputs
    /\ suggestions = Undefined
    /\ task = <<>>
    /\ slots = <<>>
    /\ FilterSongs = <<>>
    /\ finalFilteredSongs = <<>>
    /\ FilteredSongsForAI = <<>>
    /\ Filterprompt = Undefined
    /\ filterOutput = <<>>
    /\ filterSuggestions = Undefined
    /\ oracleCalls = <<>>
    /\ searches = <<>>
    /\ sent = <<>>

\* output = output.replace(/```(json)?\n/g, "").replace(/```/g, "").trim()
CleanOnce ==
    /\ pc = "raw"
    /\ output' = StripFences(output)
    /\ pc' = "cleaned"
    /\ UNCHANGED <<reqVars, suggestions, fanoutVars, stage2Vars, oracleCalls, sent>>

\* The same statement applied to the cleaned text.
CleanAgain ==
    /\ pc = "cleaned"
    /\ output' = StripFences(output)
    /\ pc' = "cleaned twice"
    /\ UNCHANGED <<reqVars, suggestions, fanoutVars, stage2Vars, oracleCalls, sent>>

CleanNext == CleanOnce \/ CleanAgain

CleanSpec == CleanInit /\ [][CleanNext]_vars

\* C10: for every valid JSON payload in any of the wraps, cleaning removes
\* nothing of the payload and parsing the cleaned text gives what parsing the
\* payload gives; and cleaning a cleaned text changes nothing.
C10_CleaningKeepsThePayload ==
    [][/\ pc = "raw" =>
            \A k \in WrapKinds, p \in CleanPayloads :
                (output = Wrap(k, p) /\ JSONParse(p).ok) =>
                    /\ output' = p
                    /\ JSONParse(output') = JSONParse(p)
       /\ pc = "cleaned" => output' = output]_vars

\* ----------------------------------------------------------------------- C11
\* The fields of a mapped candidate.
CandidateFields ==
    {"title", "id", "artist", "album", "language", "year", "playCount", "image",
     "downloadUrls"}

\* Every field of the candidate is there and is neither undefined nor null.
FullyDefined(song) ==
    /\ song.t = "object"
    /\ DOMAIN song.o = CandidateFields
    /\ \A f \in CandidateFields : song.o[f].t \notin {"undefined", "null"}

\* C11: whatever fields a raw catalog record lacks, the candidate mapped from it
\* has every field defined and not null, in the result of its search and in
\* every list built from it.
C11_MappedFieldsAreDefined ==
    Smart =>
        /\ \A i \in DOMAIN slots :
              slots[i].t = "array" =>
                 \A k \in DOMAIN slots[i].a : FullyDefined(slots[i].a[k])
        /\ \A i \in DOMAIN finalFilteredSongs : FullyDefined(finalFilteredSongs[i])

\* ----------------------------------------------------------------------- C12
\* A search of the fan-out is in flight: its task has not returned yet.
InFlight(i) == i \in DOMAIN task /\ task[i] # "done"

\* The second oracle call has been issued.
FilterCalled == \E k \in DOMAIN oracleCalls : oracleCalls[k] = "filter"

\* C12: the second oracle call is issued, and a response is sent, only when no
\* search of the fan-out is in flight; the candidate list of the second call is
\* computed from the results of all the searches.
C12_JoinBeforeFilter ==
    Smart =>
        /\ (FilterCalled \/ sent # <<>>) =>
              \A i \in DOMAIN task : ~InFlight(i)
        /\ Joined =>
              /\ DOMAIN FilterSongs = DOMAIN searches
              /\ FilterSongs = slots
              /\ \A i \in DOMAIN FilterSongs : FilterSongs[i] # Undefined
              /\ finalFilteredSongs = PassingFrom(slots, 1)

\* Two searches were issued, the second failed and the first found two hits that
\* pass the threshold; the second oracle call has been made with both.
C12_Witness ==
    /\ Smart /\ pc = "awaitFilter"
    /\ Len(searches) = 2
    /\ slots[2] = Null
    /\ slots[1].t = "array" /\ Len(slots[1].a) = 2
    /\ Len(finalFilteredSongs) = 2

\* ----------------------------------------------------------------------- C13
\* The hits of a result slot as the flattening takes them: a null or an unset
\* slot gives none.
HitsOf(slot) == IF slot.t = "array" THEN slot.a ELSE <<>>

\* The hits of the slots from position i on: slot after slot in the order of
\* the titles, and inside a slot in the order of the catalog.
RECURSIVE Concatenated(_, _)
Concatenated(arr, i) ==
    IF i > Len(arr) THEN <<>> ELSE HitsOf(arr[i]) \o Concatenated(arr, i + 1)

\* C13: whatever the order in which the searches complete, a step that sets a
\* result sets the one slot of the task that returns in that step, once; and
\* the candidate list is the passing hits of the concatenation of the slots in
\* title order, a function of the titles' results alone, duplicates kept.
C13_SlotsInTitleOrder ==
    [][ Smart =>
          /\ \A i \in DOMAIN slots :
                (i \in DOMAIN slots' /\ slots'[i] # slots[i]) =>
                    /\ slots[i] = Undefined
                    /\ task[i] # "done" /\ task'[i] = "done"
                    /\ \A j \in DOMAIN slots \ {i} : slots'[j] = slots[j]
          /\ Joined' =>
                /\ Len(FilterSongs') = Len(searches')
                /\ finalFilteredSongs' =
                      SelectSeq(Concatenated(FilterSongs', 1), LAMBDA song : ~Below(song))
      ]_vars

\* Two titles whose searches found the same two passing records in opposite
\* orders: the candidate list has the four hits, title after title.
C13_Witness ==
    /\ Joined
    /\ Len(FilterSongs) = 2
    /\ FilterSongs[1].t = "array" /\ FilterSongs[2].t = "array"
    /\ Len(finalFilteredSongs) = 4
    /\ finalFilteredSongs[1] = finalFilteredSongs[4]
    /\ finalFilteredSongs[2] = finalFilteredSongs[3]
    /\ finalFilteredSongs[1] # finalFilteredSongs[2]
    /\ finalFilteredSongs = FilterSongs[1].a \o FilterSongs[2].a

\* ----------------------------------------------------------------------- C14
\* The number of calls of the oracle named kind issued so far.
CallCount(kind) == Cardinality({k \in DOMAIN oracleCalls : oracleCalls[k] = kind})

\* C14: nothing is retried. The first oracle is called at most once and the
\* second at most once; the searches issued are one for each element of the
\* generated title list, in its order, a repeated title searched once for each
\* occurrence; and a failed search leaves the searches issued as they were.
C14_NoRetries ==
    Smart =>
        /\ CallCount("suggest") <= 1 /\ CallCount("filter") <= 1
        /\ Len(oracleCalls) = CallCount("suggest") + CallCount("filter")
        /\ IF HasArrayAt(suggestions, SongsKey)
           THEN /\ Len(searches) = Len(suggestions.o[SongsKey].a)
                /\ \A i \in DOMAIN searches :
                      searches[i] = suggestions.o[SongsKey].a[i]
                /\ DOMAIN task = DOMAIN searches
           ELSE searches = <<>>

\* The title list holds one title twice, both searches failed, and then the
\* second oracle call failed: two searches and two oracle calls in all.
C14_Witness ==
    /\ Smart /\ Done
    /\ Len(searches) = 2 /\ searches[1] = searches[2]
    /\ slots[1] = Null /\ slots[2] = Null
    /\ oracleCalls = <<"suggest", "filter">>
    /\ AnsweredError(500, "Error generating song suggestions")

\* ----------------------------------------------------------------------- C15
\* The first stage has passed: the first oracle was called and its cleaned
\* text parses to a value with an array at "songs".
FirstStagePassed ==
    /\ Len(oracleCalls) >= 1 /\ oracleCalls[1] = "suggest"
    /\ ~StageBroken(output, SongsKey)
    /\ SongsShapeOk(suggestions)

\* C15: the stages run one after the other. A search is issued only after the
\* first oracle's output is parsed and schema-checked, and the second oracle is
\* called only after the first stage and the fan-out; when the first oracle
\* call fails or its output fails parsing or the schema check, the request ends
\* with no search and no second oracle call.
C15_StagesInSequence ==
    Smart =>
        /\ (searches # <<>> \/ task # <<>>) => FirstStagePassed
        /\ pc \in {"checkApiKey", "handler", "awaitSuggest"} =>
              searches = <<>> /\ task = <<>> /\ ~FilterCalled
        /\ FilterCalled =>
              /\ FirstStagePassed
              /\ oracleCalls = <<"suggest", "filter">>
              /\ \A i \in DOMAIN task : task[i] = "done"
        /\ (Done /\ Len(oracleCalls) >= 1 /\ StageBroken(output, SongsKey)) =>
              /\ searches = <<>> /\ task = <<>>
              /\ oracleCalls = <<"suggest">>
              /\ AnsweredError500

\* The first oracle's text was no JSON: the request has ended with the parse
\* error, no search issued and the second oracle not called.
C15_Witness ==
    /\ Smart
    /\ AnsweredError(500, "Failed to parse response from AI")
    /\ output # <<>>
    /\ searches = <<>> /\ oracleCalls = <<"suggest">>

\* ----------------------------------------------------------------------- C16
\* The fields of a candidate that are given to the second oracle.
PromptFields == {"title", "album", "artist", "language", "year", "playCount"}

\* forAI is candidate song as the prompt shows it.
ProjectionOf(forAI, song) ==
    /\ forAI.t = "object" /\ DOMAIN forAI.o = PromptFields
    /\ \A f \in PromptFields : forAI.o[f] = song.o[f]

\* C16: the list embedded in the second prompt and the candidate list that is
\* compared with and filtered by the relevance vector are one sequence: the
\* same length, element i of the prompt the projection of candidate i; and from
\* the building of the prompt on no step changes either of them, so the length
\* test after the oracle's answer is a test against the prompt's length.
C16_PromptMatchesCandidates ==
    [][ Joined' =>
          /\ Len(FilteredSongsForAI') = Len(finalFilteredSongs')
          /\ \A i \in DOMAIN finalFilteredSongs' :
                ProjectionOf(FilteredSongsForAI'[i], finalFilteredSongs'[i])
          /\ Filterprompt'.total = Len(finalFilteredSongs')
          /\ Filterprompt'.songs = Arr(FilteredSongsForAI')
          /\ Joined =>
                /\ finalFilteredSongs' = finalFilteredSongs
                /\ FilteredSongsForAI' = FilteredSongsForAI
                /\ Filterprompt' = Filterprompt
          /\ (Done' /\ HasFlags') =>
                (Answered200' <=> Len(Flags') = Filterprompt'.total)
      ]_vars

\* One record is a candidate twice, found by two searches; the oracle's vector
\* has the length the prompt gave and was applied to the candidates.
C16_Witness ==
    /\ Joined /\ Answered200 /\ HasFlags
    /\ Len(finalFilteredSongs) >= 2
    /\ \E i, j \in DOMAIN finalFilteredSongs :
          i # j /\ finalFilteredSongs[i] = finalFilteredSongs[j]
    /\ Filterprompt.total = Len(Flags)

\* ----------------------------------------------------------------------- C17
\* C17: no stage writes into what an earlier stage produced. The parsed title
\* list stays as it is through the fan-out and after it; a result a task has
\* returned stays as it is, and the results array is the same before and after
\* the flattening and the threshold; the thresholded list is the same before
\* and after the projection for the prompt and the applying of the vector.
C17_EarlierOutputsKept ==
    [][ Smart =>
          /\ suggestions # Undefined => suggestions' = suggestions
          /\ \A i \in DOMAIN slots :
                slots[i] # Undefined => (i \in DOMAIN slots' /\ slots'[i] = slots[i])
          /\ (~Joined /\ Joined') =>
                /\ FilterSongs' = slots
                /\ suggestions'.o[SongsKey].a = searches
          /\ Joined =>
                /\ FilterSongs' = FilterSongs
                /\ slots' = slots
                /\ finalFilteredSongs' = finalFilteredSongs
          /\ Answered200' =>
                /\ finalFilteredSongs' = Threshold(FilterSongs')
                /\ FilteredSongsForAI' = ProjectAll(finalFilteredSongs')
      ]_vars

\* The answer kept one of two candidates; the thresholded list still has both,
\* and the results array still has the failed search's null.
C17_Witness ==
    /\ Smart /\ Answered200
    /\ Len(finalFilteredSongs) = 2
    /\ Len(sent[1].body.o.suggestedSongs.a) = 1
    /\ \E i \in DOMAIN FilterSongs : FilterSongs[i] = Null

\* ----------------------------------------------------------------------- C18
\* The request is past the fan-out: the handler awaits the second oracle or has
\* returned after a first stage that passed.
PastFanout == pc = "awaitFilter" \/ (Done /\ FirstStagePassed)

\* C18: an empty candidate list does not end the pipeline early. Past the
\* fan-out the second oracle has been called whatever the candidate list holds;
\* with no candidate, the answer is the 200 with an empty suggestedSongs exactly
\* when the oracle's array is empty, and the length-mismatch 500 for every array
\* that is not.
C18_EmptyListStillAsksOracle ==
    (Smart /\ PastFanout) =>
        /\ FilterCalled /\ Filterprompt # Undefined
        /\ (Done /\ finalFilteredSongs = <<>>) =>
              /\ Filterprompt.total = 0
              /\ Answered200 =>
                    /\ HasFlags /\ Flags = <<>>
                    /\ sent[1].body.o.suggestedSongs = Arr(<<>>)
              /\ (HasFlags /\ Flags = <<>>) => Answered200
              /\ (HasFlags /\ Flags # <<>>) =>
                    AnsweredError(500, "Suggestion array length mismatch")

\* A search found only records below the threshold: no candidate was left, the
\* second oracle was asked all the same, and its array of one flag got the 500.
C18_Witness ==
    /\ Smart /\ Done /\ FilterCalled
    /\ searches # <<>>
    /\ \E i \in DOMAIN FilterSongs :
          FilterSongs[i].t = "array" /\ FilterSongs[i].a # <<>>
    /\ finalFilteredSongs = <<>>
    /\ HasFlags /\ Len(Flags) = 1
    /\ AnsweredError(500, "Suggestion array length mismatch")

\* ----------------------------------------------------------------------- C19
\* C19: when every oracle call and every catalog search returns or fails, a
\* /smart-search request that passed the API-key check is answered in the end.
\* The handler has no timeout: as long as a search is in flight no step joins
\* the fan-out, calls the second oracle or sends a response, so a search that
\* never completes keeps all three from happening.
C19_AnsweredWhenAllSettle ==
    /\ (Smart /\ pc = "handler") ~> (Done /\ Len(sent) = 1)
    /\ [][ (Smart /\ \E i \in DOMAIN task : InFlight(i)) =>
              /\ pc' = "fanout"
              /\ oracleCalls' = oracleCalls
              /\ sent' = <<>>
              /\ FilterSongs' = <<>> /\ Filterprompt' = Undefined
         ]_vars

\* Two searches were issued and both settled with hits; the request went on to
\* the second oracle and has been answered.
C19_Witness ==
    /\ Smart /\ Done /\ Len(sent) = 1
    /\ Len(task) = 2 /\ \A i \in DOMAIN task : task[i] = "done"
    /\ \A i \in DOMAIN slots : slots[i].t = "array" /\ slots[i].a # <<>>
    /\ FilterCalled

====
